---- MODULE Spec2Model ----
(***************************************************************************)
(* DS1302 real-time-clock driver (src/ds1302.go): the BCD codec, the       *)
(* bit-serial transport over the clock, data and chip-select lines, the    *)
(* register protocol and the Init / SetTime / ReadTime facade, run         *)
(* against a simulated chip that stores each written byte under its        *)
(* register and returns it on the matching read address.                   *)
(***************************************************************************)
EXTENDS Integers, Sequences, FiniteSets, TLC

VARIABLES
    level,      \* output latch of each pin of the driver: clk, dat, rst
    mode,       \* configured direction of each pin
    chip,       \* the chip's serial front end: edge count, shifted bytes, I/O level, latch
    regs,       \* the chip's registers, keyed by write address
    trace,      \* transactions the chip saw during the current / last call
    csHigh,     \* chip-select raises during the current / last call
    csLow,      \* chip-select lowerings during the current / last call
    call,       \* the call of the facade in progress, or "idle"
    pc,         \* register transactions the call in progress has completed
    op,         \* the last completed call of the facade
    arg,        \* the time.Time given to the last SetTime
    locals,     \* the six decoded locals of the last ReadTime
    result,     \* the time.Time returned by the last ReadTime
    now,        \* the application's time, which it passes to SetTime
    codec,      \* the codec functions' argument and results
    th,         \* per goroutine: the call it runs one pin operation at a time
    overlap     \* pin operations since two calls first ran at the same time

vars ==
    <<level, mode, chip, regs, trace, csHigh, csLow, call, pc, op, arg, locals, result,
      now, codec, th, overlap>>

(***************************************************************************)
(* Bounds of the model.                                                    *)
(***************************************************************************)
\* Years the application may pass to SetTime: YearsBefore years before 2000 up
\* to YearsAfter years after 2099.
YearsBefore == 10
YearsAfter == 171
\* Clock edges the simulated chip counts within one chip-select pulse.
MaxEdges == 17
\* Pin operations followed after two calls first overlap.
MaxOverlap == 6

(***************************************************************************)
(* Register addresses (src/ds1302.go, const block).                        *)
(***************************************************************************)
DS1302_SECONDS_WRITE == 128
DS1302_SECONDS_READ == 129
DS1302_MINUTES_WRITE == 130
DS1302_MINUTES_READ == 131
DS1302_HOURS_WRITE == 132
DS1302_HOURS_READ == 133
DS1302_DATE_WRITE == 134
DS1302_DATE_READ == 135
DS1302_MONTH_WRITE == 136
DS1302_MONTH_READ == 137
DS1302_DAY_WRITE == 138
DS1302_DAY_READ == 139
DS1302_YEAR_WRITE == 140
DS1302_YEAR_READ == 141
DS1302_WP_WRITE == 142
DS1302_WP_READ == 143

(***************************************************************************)
(* uint8 arithmetic.                                                       *)
(***************************************************************************)
Byte == 0..255

\* Go's conversion uint8(x) of an int: the low 8 bits.
Uint8(x) == x % 256

Pow2(i) == CASE i = 0 -> 1 [] i = 1 -> 2 [] i = 2 -> 4 [] i = 3 -> 8
             [] i = 4 -> 16 [] i = 5 -> 32 [] i = 6 -> 64 [] i = 7 -> 128

\* data & (1 << i) != 0, as 0 or 1.
Bit(data, i) == (data \div Pow2(i)) % 2

\* x & 0x7F on a byte.
And7F(x) == x % 128

\* a | b on bytes, bit by bit.
RECURSIVE OrBits(_, _, _)
OrBits(a, b, i) ==
    IF i = 8 THEN 0
    ELSE (IF Bit(a, i) = 1 \/ Bit(b, i) = 1 THEN Pow2(i) ELSE 0) + OrBits(a, b, i + 1)

BitOr(a, b) == OrBits(a, b, 0)

(***************************************************************************)
(* Calendar codec.                                                         *)
(***************************************************************************)
\* A conversion that emits the plain binary value instead of two decimal nibbles.
decToBcdIdentity(dec) == dec

\* A conversion that splits the value into hexadecimal instead of decimal digits.
bcdToDecHex(bcd) == Uint8(Uint8((bcd \div 16) * 16) + (bcd % 16))

\* ((bcd >> 4) * 10) + (bcd & 0x0F), in uint8.
bcdToDec(bcd) == Uint8(Uint8((bcd \div 16) * 10) + (bcd % 16))

\* ((dec / 10) << 4) + (dec % 10), in uint8.
decToBcd(dec) == Uint8(Uint8((dec \div 10) * 16) + (dec % 10))

(***************************************************************************)
(* The three lines and the simulated chip.  A bus state b bundles what the *)
(* transport reads and changes: b.level and b.mode are the driver's pins,  *)
(* b.chip and b.regs the chip, b.trace / b.csHigh / b.csLow what the chip  *)
(* observed.                                                               *)
(***************************************************************************)
Pins == {"clk", "dat", "rst"}

Modes == {"unset", "output", "input"}

RegAddrs ==
    {DS1302_SECONDS_WRITE, DS1302_MINUTES_WRITE, DS1302_HOURS_WRITE, DS1302_DATE_WRITE,
     DS1302_MONTH_WRITE, DS1302_DAY_WRITE, DS1302_YEAR_WRITE, DS1302_WP_WRITE}

\* The level on the shared data wire: the driver's while its pin is an output,
\* the chip's otherwise.
Wire(b) == IF b.mode["dat"] = "output" THEN b.level["dat"] ELSE b.chip.io

\* The chip's answer to a read command: the byte stored under the write address
\* that differs from the read address only in the low bit.
ChipRead(r, cmd) == IF (cmd - 1) \in DOMAIN r THEN r[cmd - 1] ELSE 0

\* The chip stores a written byte under its address.
ChipStore(r, cmd, data) == IF cmd \in DOMAIN r THEN [r EXCEPT ![cmd] = data] ELSE r

\* A chip with a write-protect latch refuses writes while bit 7 of its
\* write-protect register is set.
ChipProtected(b) == b.chip.latch /\ b.regs[DS1302_WP_WRITE] >= 128

\* A write reaches the chip: the write-protect register always takes it, any
\* other register unless the chip is protected.
ChipWrite(b, cmd, data) ==
    IF ChipProtected(b) /\ cmd /= DS1302_WP_WRITE THEN b.regs
    ELSE ChipStore(b.regs, cmd, data)

\* Chip-select rises: the chip starts a new transaction.
ChipSelect(b) ==
    [b EXCEPT !.chip.cnt = 0, !.chip.cmd = 0, !.chip.din = 0,
              !.csHigh = b.csHigh + 1]

\* Chip-select falls: the transaction ends and is logged with its length.
ChipDeselect(b) ==
    [b EXCEPT !.trace = Append(b.trace,
                  [cmd |-> b.chip.cmd,
                   data |-> IF b.chip.cmd % 2 = 1 THEN ChipRead(b.regs, b.chip.cmd)
                            ELSE b.chip.din,
                   edges |-> b.chip.cnt]),
              !.csLow = b.csLow + 1]

\* Clock rises while selected: the chip samples the data wire, the command byte
\* over the first eight edges, the data byte of a write over the next eight;
\* the sixteenth edge of a write stores the byte.
ChipRisingEdge(b) ==
    LET c == b.chip
        n == c.cnt
        w == Wire(b)
    IN  IF n < 8 THEN
            [b EXCEPT !.chip.cnt = n + 1, !.chip.cmd = c.cmd + w * Pow2(n)]
        ELSE IF n < 16 /\ c.cmd % 2 = 0 THEN
            LET d == c.din + w * Pow2(n - 8)
            IN  [b EXCEPT !.chip.cnt = n + 1, !.chip.din = d,
                          !.regs = IF n = 15 THEN ChipWrite(b, c.cmd, d) ELSE b.regs]
        ELSE
            [b EXCEPT !.chip.cnt = IF n < MaxEdges THEN n + 1 ELSE n]

\* Clock falls while selected: after a read command the chip presents the next
\* bit of the addressed register, least significant bit first.
ChipFallingEdge(b) ==
    LET c == b.chip
    IN  IF c.cnt >= 8 /\ c.cnt < 16 /\ c.cmd % 2 = 1
        THEN [b EXCEPT !.chip.io = Bit(ChipRead(b.regs, c.cmd), c.cnt - 8)]
        ELSE b

\* machine.Pin.Configure
PinConfigure(b, pin, m) == [b EXCEPT !.mode[pin] = m]

\* machine.Pin.High
PinHigh(b, pin) ==
    LET b1 == [b EXCEPT !.level[pin] = 1]
    IN  IF b.level[pin] = 1 THEN b
        ELSE IF pin = "clk" /\ b.level["rst"] = 1 THEN ChipRisingEdge(b1)
        ELSE IF pin = "rst" THEN ChipSelect(b1)
        ELSE b1

\* machine.Pin.Low
PinLow(b, pin) ==
    LET b1 == [b EXCEPT !.level[pin] = 0]
    IN  IF b.level[pin] = 0 THEN b
        ELSE IF pin = "clk" /\ b.level["rst"] = 1 THEN ChipFallingEdge(b1)
        ELSE IF pin = "rst" THEN ChipDeselect(b1)
        ELSE b1

\* machine.Pin.Get on the data pin.
PinGet(b) == Wire(b)

(***************************************************************************)
(* Bit-serial transport.  time.Sleep changes no state and is left out.     *)
(***************************************************************************)
\* One iteration of writeByte's loop: set the data line to bit i, pulse the clock.
writeBit(b, data, i) ==
    LET b1 == IF Bit(data, i) /= 0 THEN PinHigh(b, "dat") ELSE PinLow(b, "dat")
        b2 == PinHigh(b1, "clk")
    IN  PinLow(b2, "clk")

\* for i := 0; i < 8; i++: iteration i runs on the bus that iteration i - 1 left.
RECURSIVE writeLoop(_, _, _)
writeLoop(b, data, i) ==
    IF i < 8
    THEN CHOOSE r \in {writeLoop(nb, data, i + 1) : nb \in {writeBit(b, data, i)}} : TRUE
    ELSE b

\* func (d *DS1302) writeByte(data uint8)
writeByte(b, data) == writeLoop(PinConfigure(b, "dat", "output"), data, 0)

\* A readByte that samples the data line only after it lowered the clock.
readBitLate(rd, i) ==
    LET b1 == PinLow(PinHigh(rd.bus, "clk"), "clk")
        d1 == IF PinGet(b1) = 1 THEN BitOr(rd.data, Pow2(i)) ELSE rd.data
    IN  [bus |-> b1, data |-> d1]

\* One iteration of readByte's loop on rd = [bus, data]: raise the clock, sample
\* the data line into bit i, lower the clock.
readBit(rd, i) ==
    LET b1 == PinHigh(rd.bus, "clk")
        d1 == IF PinGet(b1) = 1 THEN BitOr(rd.data, Pow2(i)) ELSE rd.data
    IN  [bus |-> PinLow(b1, "clk"), data |-> d1]

\* for i := 0; i < 8; i++: iteration i runs on what iteration i - 1 left.
RECURSIVE readLoop(_, _)
readLoop(rd, i) ==
    IF i < 8
    THEN CHOOSE r \in {readLoop(nrd, i + 1) : nrd \in {readBit(rd, i)}} : TRUE
    ELSE rd

\* func (d *DS1302) readByte() uint8: the bus afterwards and the byte returned.
readByte(b) == readLoop([bus |-> PinConfigure(b, "dat", "input"), data |-> 0], 0)

(***************************************************************************)
(* Register protocol.                                                      *)
(***************************************************************************)
\* func (d *DS1302) writeRegister(reg, value uint8)
writeRegister(b, reg, value) ==
    LET b1 == PinHigh(b, "rst")
        b2 == writeByte(b1, reg)
        b3 == writeByte(b2, value)
    IN  PinLow(b3, "rst")

\* A readRegister that leaves chip-select asserted.
readRegisterNoDeselect(b, reg) ==
    LET b1 == PinHigh(b, "rst")
        b2 == writeByte(b1, reg)
        rd == readByte(b2)
    IN  [bus |-> rd.bus, value |-> rd.data]

\* func (d *DS1302) readRegister(reg uint8) uint8: the bus afterwards and the value.
readRegister(b, reg) ==
    LET b1 == PinHigh(b, "rst")
        b2 == writeByte(b1, reg)
        rd == readByte(b2)
    IN  [bus |-> PinLow(rd.bus, "rst"), value |-> rd.data]

(***************************************************************************)
(* time.Time values and time.Date, which normalises out-of-range fields    *)
(* by carrying them into the next larger unit.                             *)
(***************************************************************************)
Time(y, mo, d, h, mi, s) ==
    [year |-> y, month |-> mo, day |-> d, hour |-> h, minute |-> mi, second |-> s]

\* No time: SetTime has not been called, or ReadTime has not returned.
NoTime == [year |-> -1, month |-> 0, day |-> 0, hour |-> 0, minute |-> 0, second |-> 0]

IsLeap(y) == y % 4 = 0 /\ (y % 100 /= 0 \/ y % 400 = 0)

DaysIn(mo, y) ==
    IF mo \in {4, 6, 9, 11} THEN 30
    ELSE IF mo = 2 THEN (IF IsLeap(y) THEN 29 ELSE 28)
    ELSE 31

DaysInYear(y) == IF IsLeap(y) THEN 366 ELSE 365

RECURSIVE DaysBefore(_, _)
DaysBefore(mo, y) == IF mo <= 1 THEN 0 ELSE DaysBefore(mo - 1, y) + DaysIn(mo - 1, y)

\* The calendar date of day number yday (0 = 1 January) counted from year y.
RECURSIVE FromYearDay(_, _)
FromYearDay(y, yday) ==
    IF yday < 0 THEN FromYearDay(y - 1, yday + DaysInYear(y - 1))
    ELSE IF yday >= DaysInYear(y) THEN FromYearDay(y + 1, yday - DaysInYear(y))
    ELSE LET mo == CHOOSE m \in 1..12 :
                       /\ DaysBefore(m, y) <= yday
                       /\ yday < DaysBefore(m, y) + DaysIn(m, y)
         IN  [year |-> y, month |-> mo, day |-> yday - DaysBefore(mo, y) + 1]

\* time.Date(year, month, day, hour, min, sec, 0, time.UTC) on non-negative
\* arguments: month overflows into the year, seconds into minutes, minutes into
\* hours, hours into days, and the day count is turned back into a date.
Date(year, month, day, hour, min, sec) ==
    LET m0 == month - 1
        y1 == year + (m0 \div 12)
        m1 == (m0 % 12) + 1
        min1 == min + (sec \div 60)
        hour1 == hour + (min1 \div 60)
        day1 == day + (hour1 \div 24)
        ymd == FromYearDay(y1, DaysBefore(m1, y1) + day1 - 1)
    IN  Time(ymd.year, ymd.month, ymd.day, hour1 % 24, min1 % 60, sec % 60)

(***************************************************************************)
(* Driver facade, as functions of the bus.                                 *)
(***************************************************************************)
\* An Init that does not reconfigure the data line, which ReadTime leaves an input.
InitBusNoDat(b) ==
    LET b1 == PinConfigure(b, "clk", "output")
        b3 == PinConfigure(b1, "rst", "output")
        b4 == PinLow(b3, "clk")
        b5 == PinLow(b4, "rst")
    IN  PinLow(b5, "dat")

\* func (d *DS1302) Init()
InitBus(b) ==
    LET b1 == PinConfigure(b, "clk", "output")
        b2 == PinConfigure(b1, "dat", "output")
        b3 == PinConfigure(b2, "rst", "output")
        b4 == PinLow(b3, "clk")
        b5 == PinLow(b4, "rst")
    IN  PinLow(b5, "dat")

\* A SetTime that does not lift the write protection first.
SetTimeWritesNoUnprotect(t) ==
    << <<DS1302_SECONDS_WRITE, decToBcd(Uint8(t.second))>>,
       <<DS1302_MINUTES_WRITE, decToBcd(Uint8(t.minute))>>,
       <<DS1302_HOURS_WRITE, decToBcd(Uint8(t.hour))>>,
       <<DS1302_DATE_WRITE, decToBcd(Uint8(t.day))>>,
       <<DS1302_MONTH_WRITE, decToBcd(Uint8(t.month))>>,
       <<DS1302_YEAR_WRITE, decToBcd(Uint8(t.year - 2000))>>,
       <<DS1302_WP_WRITE, 128>> >>

\* A SetTime that leaves the chip writable: the final write-protect write is missing.
SetTimeWritesNoProtect(t) ==
    << <<DS1302_WP_WRITE, 0>>,
       <<DS1302_SECONDS_WRITE, decToBcd(Uint8(t.second))>>,
       <<DS1302_MINUTES_WRITE, decToBcd(Uint8(t.minute))>>,
       <<DS1302_HOURS_WRITE, decToBcd(Uint8(t.hour))>>,
       <<DS1302_DATE_WRITE, decToBcd(Uint8(t.day))>>,
       <<DS1302_MONTH_WRITE, decToBcd(Uint8(t.month))>>,
       <<DS1302_YEAR_WRITE, decToBcd(Uint8(t.year - 2000))>> >>

\* A SetTime that encodes the absolute year instead of its offset from 2000.
SetTimeWritesAbsoluteYear(t) ==
    << <<DS1302_WP_WRITE, 0>>,
       <<DS1302_SECONDS_WRITE, decToBcd(Uint8(t.second))>>,
       <<DS1302_MINUTES_WRITE, decToBcd(Uint8(t.minute))>>,
       <<DS1302_HOURS_WRITE, decToBcd(Uint8(t.hour))>>,
       <<DS1302_DATE_WRITE, decToBcd(Uint8(t.day))>>,
       <<DS1302_MONTH_WRITE, decToBcd(Uint8(t.month))>>,
       <<DS1302_YEAR_WRITE, decToBcd(Uint8(t.year))>>,
       <<DS1302_WP_WRITE, 128>> >>

\* The register writes of SetTime, in the order of its statements.
SetTimeWrites(t) ==
    << <<DS1302_WP_WRITE, 0>>,
       <<DS1302_SECONDS_WRITE, decToBcd(Uint8(t.second))>>,
       <<DS1302_MINUTES_WRITE, decToBcd(Uint8(t.minute))>>,
       <<DS1302_HOURS_WRITE, decToBcd(Uint8(t.hour))>>,
       <<DS1302_DATE_WRITE, decToBcd(Uint8(t.day))>>,
       <<DS1302_MONTH_WRITE, decToBcd(Uint8(t.month))>>,
       <<DS1302_YEAR_WRITE, decToBcd(Uint8(t.year - 2000))>>,
       <<DS1302_WP_WRITE, 128>> >>

\* A ReadTime that sends the write address of the seconds register.
ReadTimeReadsWriteAddress ==
    << <<DS1302_SECONDS_WRITE, "seconds">>,
       <<DS1302_MINUTES_READ, "minutes">>,
       <<DS1302_HOURS_READ, "hours">>,
       <<DS1302_DATE_READ, "day">>,
       <<DS1302_MONTH_READ, "month">>,
       <<DS1302_YEAR_READ, "year">> >>

\* A ReadTime that reads the day of the week where the day of the month belongs.
ReadTimeReadsDayOfWeek ==
    << <<DS1302_SECONDS_READ, "seconds">>,
       <<DS1302_MINUTES_READ, "minutes">>,
       <<DS1302_HOURS_READ, "hours">>,
       <<DS1302_DAY_READ, "day">>,
       <<DS1302_MONTH_READ, "month">>,
       <<DS1302_YEAR_READ, "year">> >>

\* The register reads of ReadTime, in the order of its statements, each with
\* the local it assigns.
ReadTimeReads ==
    << <<DS1302_SECONDS_READ, "seconds">>,
       <<DS1302_MINUTES_READ, "minutes">>,
       <<DS1302_HOURS_READ, "hours">>,
       <<DS1302_DATE_READ, "day">>,
       <<DS1302_MONTH_READ, "month">>,
       <<DS1302_YEAR_READ, "year">> >>

\* A ReadTime that decodes the seconds byte with the clock-halt bit still in it.
ReadTimeDecodeNoMask(local, value) ==
    IF local = "year" THEN 2000 + bcdToDec(value) ELSE bcdToDec(value)

\* What ReadTime assigns to a local from the byte readRegister returned.
ReadTimeDecode(local, value) ==
    IF local = "seconds" THEN bcdToDec(And7F(value))
    ELSE IF local = "year" THEN 2000 + bcdToDec(value)
    ELSE bcdToDec(value)

\* The return statement of ReadTime.
ReadTimeResult(l) == Date(l.year, l.month, l.day, l.hours, l.minutes, l.seconds)

(***************************************************************************)
(* Inputs: the times the application sets and the register contents the    *)
(* chip may hold at power-up.                                              *)
(***************************************************************************)
\* time.Date(2024, 8, 5, 21, 0, 0, 0, time.UTC), the example's initial time.
BaseTime == Time(2024, 8, 5, 21, 0, 0)

\* A second time of the application, with no field in common with BaseTime.
OtherTime == Time(2031, 12, 31, 23, 59, 58)

\* The base time with one field taken over its whole range, the years over
\* 2000 - YearsBefore .. 2099 + YearsAfter, and dates at the ends of months, years and the century.
Times ==
    {[BaseTime EXCEPT !.second = x] : x \in 0..59}
    \cup {[BaseTime EXCEPT !.minute = x] : x \in 0..59}
    \cup {[BaseTime EXCEPT !.hour = x] : x \in 0..23}
    \cup {[BaseTime EXCEPT !.day = x] : x \in 1..31}
    \cup {[BaseTime EXCEPT !.month = x] : x \in 1..12}
    \cup {[BaseTime EXCEPT !.year = x] : x \in (2000 - YearsBefore)..(2099 + YearsAfter)}
    \cup {OtherTime, Time(2000, 1, 1, 0, 0, 0), Time(2099, 12, 31, 23, 59, 59),
          Time(2024, 2, 29, 12, 34, 56), Time(2000, 2, 29, 23, 59, 59),
          Time(2023, 2, 28, 7, 8, 9), Time(2019, 11, 30, 10, 20, 30)}

\* The registers holding 2024-08-05 21:00:00, a Monday, write-protected.
BaseRegs ==
    (DS1302_SECONDS_WRITE :> 0) @@ (DS1302_MINUTES_WRITE :> 0)
    @@ (DS1302_HOURS_WRITE :> 33) @@ (DS1302_DATE_WRITE :> 5)
    @@ (DS1302_MONTH_WRITE :> 8) @@ (DS1302_DAY_WRITE :> 1)
    @@ (DS1302_YEAR_WRITE :> 36) @@ (DS1302_WP_WRITE :> 128)

\* Bytes around the ends of each field's range, valid BCD and not.
SampleBytes == {0, 9, 10, 18, 19, 35, 36, 49, 50, 89, 96, 127, 128, 153, 165, 255}

\* The base registers with the seconds or the year register holding any byte or
\* any other register holding a sample byte, and registers that are all zeroes
\* or all ones.
PowerUpRegs ==
    {[BaseRegs EXCEPT ![a] = x] : a \in {DS1302_SECONDS_WRITE, DS1302_YEAR_WRITE}, x \in Byte}
    \cup {[BaseRegs EXCEPT ![a] = x] : a \in RegAddrs, x \in SampleBytes}
    \cup {[a \in RegAddrs |-> 0], [a \in RegAddrs |-> 255]}

(***************************************************************************)
(* The state machine: the application constructs the driver, calls Init,   *)
(* and then SetTime and ReadTime in any order, one call at a time.  A call *)
(* of SetTime or ReadTime advances by one register transaction per step.   *)
(***************************************************************************)
Bus ==
    [level |-> level, mode |-> mode, chip |-> chip, regs |-> regs,
     trace |-> trace, csHigh |-> csHigh, csLow |-> csLow]

\* The bus b becomes the state of the lines and the chip.
Becomes(b) ==
    /\ level' = b.level
    /\ mode' = b.mode
    /\ chip' = b.chip
    /\ regs' = b.regs
    /\ trace' = b.trace
    /\ csHigh' = b.csHigh
    /\ csLow' = b.csLow

\* A call begins: what the chip observes is counted per call.
Observe ==
    /\ trace' = <<>>
    /\ csHigh' = 0
    /\ csLow' = 0
    /\ UNCHANGED <<level, mode, chip, regs>>

NoLocals ==
    [seconds |-> 0, minutes |-> 0, hours |-> 0, day |-> 0, month |-> 0, year |-> 0]

CodecOff == [pc |-> "off", n |-> 0, bcd |-> 0, dec |-> 0]

\* The goroutines of the application that may call the driver.
Threads == {1, 2}

\* A goroutine that is in no call; input is the byte it passes when it calls
\* writeRegister directly.
IdleThread(v) ==
    [call |-> "idle", ip |-> 0, arg |-> NoTime, reg |-> 0, value |-> 0, data |-> 0,
     locals |-> NoLocals, input |-> v]

\* NewDS1302: the pins are stored and nothing is configured or driven yet.
Constructed ==
    /\ level = [p \in Pins |-> 0]
    /\ mode = [p \in Pins |-> "unset"]
    /\ chip \in {[cnt |-> 0, cmd |-> 0, din |-> 0, io |-> 0, latch |-> l] : l \in BOOLEAN}
    /\ trace = <<>>
    /\ csHigh = 0
    /\ csLow = 0
    /\ call = "idle"
    /\ pc = 0
    /\ op = "none"
    /\ arg = NoTime
    /\ locals = NoLocals
    /\ result = NoTime
    /\ th \in {[t \in Threads |-> IdleThread(v)] : v \in Byte}
    /\ overlap = 0

\* The driver is constructed; the chip holds any of the power-up contents and
\* the application's time is any of Times, one of the two being the base one.
Init ==
    /\ Constructed
    /\ ~chip.latch
    /\ th[1].input = 0
    /\ regs \in PowerUpRegs
    /\ now \in Times
    /\ regs = BaseRegs \/ now = BaseTime
    /\ codec = CodecOff

\* rtc.Init()
DriverInit ==
    /\ call = "idle"
    /\ Becomes(InitBus([Bus EXCEPT !.trace = <<>>, !.csHigh = 0, !.csLow = 0]))
    /\ op' = "Init"
    /\ UNCHANGED <<call, pc, arg, locals, result, now, codec, th, overlap>>

\* The application's clock moves on between calls.
Clock ==
    /\ call = "idle"
    /\ now \in {BaseTime, OtherTime}
    /\ now' = IF now = BaseTime THEN OtherTime ELSE BaseTime
    /\ UNCHANGED <<level, mode, chip, regs, trace, csHigh, csLow, call, pc, op, arg,
                   locals, result, codec, th, overlap>>

\* rtc.SetTime(now) is entered; the application has called Init before, as the
\* example's main does.
SetTimeBegin ==
    /\ call = "idle"
    /\ op /= "none"
    /\ call' = "SetTime"
    /\ pc' = 0
    /\ arg' = now
    /\ Observe
    /\ UNCHANGED <<op, locals, result, now, codec, th, overlap>>

\* The next writeRegister statement of SetTime.
SetTimeWrite ==
    /\ call = "SetTime"
    /\ pc < Len(SetTimeWrites(arg))
    /\ LET w == SetTimeWrites(arg)[pc + 1]
       IN  Becomes(writeRegister(Bus, w[1], w[2]))
    /\ pc' = pc + 1
    /\ UNCHANGED <<call, op, arg, locals, result, now, codec, th, overlap>>

\* SetTime returns.
SetTimeReturn ==
    /\ call = "SetTime"
    /\ pc = Len(SetTimeWrites(arg))
    /\ call' = "idle"
    /\ pc' = 0
    /\ op' = "SetTime"
    /\ UNCHANGED <<level, mode, chip, regs, trace, csHigh, csLow, arg, locals, result,
                   now, codec, th, overlap>>

\* rtc.ReadTime() is entered.
ReadTimeBegin ==
    /\ call = "idle"
    /\ op /= "none"
    /\ call' = "ReadTime"
    /\ pc' = 0
    /\ locals' = NoLocals
    /\ Observe
    /\ UNCHANGED <<op, arg, result, now, codec, th, overlap>>

\* The next readRegister statement of ReadTime, decoded into its local.
ReadTimeRead ==
    /\ call = "ReadTime"
    /\ pc < Len(ReadTimeReads)
    /\ LET rd == ReadTimeReads[pc + 1]
           r == readRegister(Bus, rd[1])
       IN  /\ Becomes(r.bus)
           /\ locals' = [locals EXCEPT ![rd[2]] = ReadTimeDecode(rd[2], r.value)]
    /\ pc' = pc + 1
    /\ UNCHANGED <<call, op, arg, result, now, codec, th, overlap>>

\* ReadTime returns time.Date of its locals.
ReadTimeReturn ==
    /\ call = "ReadTime"
    /\ pc = Len(ReadTimeReads)
    /\ result' = ReadTimeResult(locals)
    /\ call' = "idle"
    /\ pc' = 0
    /\ op' = "ReadTime"
    /\ UNCHANGED <<level, mode, chip, regs, trace, csHigh, csLow, arg, locals, now, codec,
                   th, overlap>>

Next ==
    \/ DriverInit
    \/ Clock
    \/ SetTimeBegin
    \/ SetTimeWrite
    \/ SetTimeReturn
    \/ ReadTimeBegin
    \/ ReadTimeRead
    \/ ReadTimeReturn

Spec == Init /\ [][Next]_vars

(***************************************************************************)
(* The same calls against a chip with a write-protect latch, found in any  *)
(* state of the latch.                                                     *)
(***************************************************************************)
\* The base registers with any sample byte in the write-protect register, and
\* registers that are all zeroes or all ones.
LatchRegs ==
    {[BaseRegs EXCEPT ![DS1302_WP_WRITE] = x] : x \in SampleBytes}
    \cup {[a \in RegAddrs |-> 0], [a \in RegAddrs |-> 255]}

LatchInit ==
    /\ Constructed
    /\ chip.latch
    /\ th[1].input = 0
    /\ regs \in LatchRegs
    /\ now \in {BaseTime, OtherTime}
    /\ codec = CodecOff

SpecLatch == LatchInit /\ [][Next]_vars

(***************************************************************************)
(* The codec on its own: every uint8 is encoded and the result decoded.    *)
(***************************************************************************)
CodecInit ==
    /\ Constructed
    /\ ~chip.latch
    /\ th[1].input = 0
    /\ regs = BaseRegs
    /\ now = BaseTime
    /\ codec \in [pc : {"arg"}, n : Byte, bcd : {0}, dec : {0}]

Encode ==
    /\ codec.pc = "arg"
    /\ codec' = [codec EXCEPT !.pc = "encoded", !.bcd = decToBcd(codec.n)]
    /\ UNCHANGED <<level, mode, chip, regs, trace, csHigh, csLow, call, pc, op, arg, locals,
                   result, now, th, overlap>>

Decode ==
    /\ codec.pc = "encoded"
    /\ codec' = [codec EXCEPT !.pc = "decoded", !.dec = bcdToDec(codec.bcd)]
    /\ UNCHANGED <<level, mode, chip, regs, trace, csHigh, csLow, call, pc, op, arg, locals,
                   result, now, th, overlap>>

CodecNext == Encode \/ Decode

SpecCodec == CodecInit /\ [][CodecNext]_vars

(***************************************************************************)
(* The stub of builds without TinyGo: a driver without fields whose        *)
(* methods have empty bodies.                                              *)
(***************************************************************************)
\* time.Time{}: 1 January of year 1, 00:00:00 UTC.
ZeroTime == Time(1, 1, 1, 0, 0, 0)

\* A stub ReadTime that hands back the time of the last SetTime.
StubReadTimeEcho == arg

\* func (d *DS1302) ReadTime() time.Time { return time.Time{} }
StubReadTimeValue == ZeroTime

\* NewDS1302(_, _, _ any): the three arguments are dropped.
StubConstructed ==
    /\ Constructed
    /\ ~chip.latch
    /\ th[1].input = 0
    /\ regs = BaseRegs
    /\ now \in Times
    /\ codec = CodecOff

\* func (d *DS1302) Init() {}
StubInit ==
    /\ op' = "Init"
    /\ UNCHANGED <<level, mode, chip, regs, trace, csHigh, csLow, call, pc, arg, locals,
                   result, now, codec, th, overlap>>

\* func (d *DS1302) SetTime(_ time.Time) {}
StubSetTime ==
    /\ op' = "SetTime"
    /\ arg' = now
    /\ UNCHANGED <<level, mode, chip, regs, trace, csHigh, csLow, call, pc, locals, result,
                   now, codec, th, overlap>>

\* func (d *DS1302) ReadTime() time.Time
StubReadTime ==
    /\ op' = "ReadTime"
    /\ result' = StubReadTimeValue
    /\ UNCHANGED <<level, mode, chip, regs, trace, csHigh, csLow, call, pc, arg, locals,
                   now, codec, th, overlap>>

StubNext == StubInit \/ StubSetTime \/ StubReadTime \/ Clock

SpecStub == StubConstructed /\ [][StubNext]_vars

(***************************************************************************)
(* The driver one pin operation at a time.  A goroutine in a call is at    *)
(* position ip of the call's pin operations; each step performs the        *)
(* operation at that position on the lines.  time.Sleep is left out.       *)
(***************************************************************************)
\* Pin operations of one writeByte or readByte: Configure, then three per bit.
ByteOps == 1 + 8 * 3

\* Pin operations of one writeRegister or readRegister.
TxnOps == 1 + ByteOps + ByteOps + 1

\* Pin operations of Init.
InitOps == 6

PinOp(k, pin) == [k |-> k, pin |-> pin, m |-> "unset", i |-> 0]

\* Init: the pin operation at position j.
InitOp(j) ==
    CASE j = 0 -> [PinOp("configure", "clk") EXCEPT !.m = "output"]
      [] j = 1 -> [PinOp("configure", "dat") EXCEPT !.m = "output"]
      [] j = 2 -> [PinOp("configure", "rst") EXCEPT !.m = "output"]
      [] j = 3 -> PinOp("low", "clk")
      [] j = 4 -> PinOp("low", "rst")
      [] OTHER -> PinOp("low", "dat")

\* A writeByte that shifts the most significant bit out first.
writeByteOpMsbFirst(j, data) ==
    LET i == (j - 1) \div 3
        ph == (j - 1) % 3
    IN  IF j = 0 THEN [PinOp("configure", "dat") EXCEPT !.m = "output"]
        ELSE IF ph = 0 THEN (IF Bit(data, 7 - i) /= 0 THEN PinOp("high", "dat")
                             ELSE PinOp("low", "dat"))
        ELSE IF ph = 1 THEN PinOp("high", "clk")
        ELSE PinOp("low", "clk")

\* A writeByte that relies on the direction the data pin already has.
writeByteOpNoConfigure(j, data) ==
    LET i == (j - 1) \div 3
        ph == (j - 1) % 3
    IN  IF j = 0 THEN PinOp("low", "clk")
        ELSE IF ph = 0 THEN (IF Bit(data, i) /= 0 THEN PinOp("high", "dat")
                             ELSE PinOp("low", "dat"))
        ELSE IF ph = 1 THEN PinOp("high", "clk")
        ELSE PinOp("low", "clk")

\* A writeByte whose clock pulses are inverted: low first, then high.
writeByteOpInverted(j, data) ==
    LET i == (j - 1) \div 3
        ph == (j - 1) % 3
    IN  IF j = 0 THEN [PinOp("configure", "dat") EXCEPT !.m = "output"]
        ELSE IF ph = 0 THEN (IF Bit(data, i) /= 0 THEN PinOp("high", "dat")
                             ELSE PinOp("low", "dat"))
        ELSE IF ph = 1 THEN PinOp("low", "clk")
        ELSE PinOp("high", "clk")

\* writeByte(data): the pin operation at position j; bit i takes positions
\* 1 + 3 * i (data line), 2 + 3 * i (clock high) and 3 + 3 * i (clock low).
writeByteOp(j, data) ==
    LET i == (j - 1) \div 3
        ph == (j - 1) % 3
    IN  IF j = 0 THEN [PinOp("configure", "dat") EXCEPT !.m = "output"]
        ELSE IF ph = 0 THEN (IF Bit(data, i) /= 0 THEN PinOp("high", "dat")
                             ELSE PinOp("low", "dat"))
        ELSE IF ph = 1 THEN PinOp("high", "clk")
        ELSE PinOp("low", "clk")

\* A readByte that samples the data line only after it lowered the clock.
readByteOpLate(j) ==
    LET i == (j - 1) \div 3
        ph == (j - 1) % 3
    IN  IF j = 0 THEN [PinOp("configure", "dat") EXCEPT !.m = "input"]
        ELSE IF ph = 0 THEN PinOp("high", "clk")
        ELSE IF ph = 1 THEN PinOp("low", "clk")
        ELSE [PinOp("get", "dat") EXCEPT !.i = i]

\* readByte(): the pin operation at position j; bit i takes positions
\* 1 + 3 * i (clock high), 2 + 3 * i (sample) and 3 + 3 * i (clock low).
readByteOp(j) ==
    LET i == (j - 1) \div 3
        ph == (j - 1) % 3
    IN  IF j = 0 THEN [PinOp("configure", "dat") EXCEPT !.m = "input"]
        ELSE IF ph = 0 THEN PinOp("high", "clk")
        ELSE IF ph = 1 THEN [PinOp("get", "dat") EXCEPT !.i = i]
        ELSE PinOp("low", "clk")

\* A writeRegister that does not raise chip-select.
writeRegisterOpNoSelect(j, reg, value) ==
    IF j = 0 THEN PinOp("low", "rst")
    ELSE IF j <= ByteOps THEN writeByteOp(j - 1, reg)
    ELSE IF j <= 2 * ByteOps THEN writeByteOp(j - 1 - ByteOps, value)
    ELSE PinOp("low", "rst")

\* A writeRegister that leaves chip-select raised.
writeRegisterOpNoDeselect(j, reg, value) ==
    IF j = 0 THEN PinOp("high", "rst")
    ELSE IF j <= ByteOps THEN writeByteOp(j - 1, reg)
    ELSE IF j <= 2 * ByteOps THEN writeByteOp(j - 1 - ByteOps, value)
    ELSE PinOp("high", "rst")

\* writeRegister(reg, value): the pin operation at position j.
writeRegisterOp(j, reg, value) ==
    IF j = 0 THEN PinOp("high", "rst")
    ELSE IF j <= ByteOps THEN writeByteOp(j - 1, reg)
    ELSE IF j <= 2 * ByteOps THEN writeByteOp(j - 1 - ByteOps, value)
    ELSE PinOp("low", "rst")

\* readRegister(reg): the pin operation at position j.
readRegisterOp(j, reg) ==
    IF j = 0 THEN PinOp("high", "rst")
    ELSE IF j <= ByteOps THEN writeByteOp(j - 1, reg)
    ELSE IF j <= 2 * ByteOps THEN readByteOp(j - 1 - ByteOps)
    ELSE PinOp("low", "rst")

\* The register and value of the transaction a goroutine w is in.
TxnOf(w) ==
    CASE w.call = "SetTime" -> SetTimeWrites(w.arg)[w.ip \div TxnOps + 1]
      [] w.call = "ReadTime" -> <<ReadTimeReads[w.ip \div TxnOps + 1][1], 0>>
      [] OTHER -> <<w.reg, w.value>>

\* Pin operations of the call a goroutine w is in.
OpsOf(w) ==
    CASE w.call = "Init" -> InitOps
      [] w.call = "SetTime" -> Len(SetTimeWrites(w.arg)) * TxnOps
      [] w.call = "ReadTime" -> Len(ReadTimeReads) * TxnOps
      [] w.call \in {"writeRegister", "readRegister"} -> TxnOps
      [] OTHER -> 0

\* The pin operation a goroutine w performs next.
OpAt(w) ==
    CASE w.call = "Init" -> InitOp(w.ip)
      [] w.call \in {"SetTime", "writeRegister"} ->
            writeRegisterOp(w.ip % TxnOps, TxnOf(w)[1], TxnOf(w)[2])
      [] OTHER -> readRegisterOp(w.ip % TxnOps, TxnOf(w)[1])

\* The lines and the chip after pin operation o.
Perform(b, o) ==
    CASE o.k = "configure" -> PinConfigure(b, o.pin, o.m)
      [] o.k = "high" -> PinHigh(b, o.pin)
      [] o.k = "low" -> PinLow(b, o.pin)
      [] OTHER -> b

\* The goroutine w after pin operation o on bus b: readByte's data starts at 0
\* and takes bit i when the data line is sampled high; when readRegister
\* returns inside ReadTime, the byte is decoded into the statement's local.
Advance(w, o, b) ==
    LET d == IF o.k = "configure" /\ o.m = "input" THEN 0
             ELSE IF o.k = "get" /\ PinGet(b) = 1 THEN BitOr(w.data, Pow2(o.i))
             ELSE w.data
        name == ReadTimeReads[w.ip \div TxnOps + 1][2]
        l == IF w.call = "ReadTime" /\ w.ip % TxnOps = TxnOps - 1
             THEN [w.locals EXCEPT ![name] = ReadTimeDecode(name, w.data)]
             ELSE w.locals
    IN  [w EXCEPT !.ip = w.ip + 1, !.data = d, !.locals = l]

Busy(t) == th[t].call /= "idle"

\* Another goroutine is in a call.
Others(t) == \E u \in Threads \ {t} : Busy(u)

\* The times the application sets when the driver is followed pin by pin.
LineTimes == {BaseTime, OtherTime}

\* The register contents the chip holds then: the base ones, all ones, all zeroes.
LineRegs == {BaseRegs, [a \in RegAddrs |-> 255], [a \in RegAddrs |-> 0]}

\* Goroutine t enters call c.  Entering while another call runs starts the
\* count of overlapped pin operations; otherwise what the chip observes is
\* counted afresh.
Enter(t, c, x, reg, value) ==
    /\ ~Busy(t)
    /\ overlap < MaxOverlap
    /\ th' = [th EXCEPT ![t] = [IdleThread(th[t].input) EXCEPT
                                   !.call = c, !.arg = x, !.reg = reg, !.value = value]]
    /\ IF Others(t)
       THEN /\ overlap' = IF overlap = 0 THEN 1 ELSE overlap
            /\ UNCHANGED <<level, mode, chip, regs, trace, csHigh, csLow>>
       ELSE /\ overlap' = overlap
            /\ Observe
    /\ UNCHANGED <<call, pc, op, arg, locals, result, now, codec>>

\* rtc.Init(), called while no other call runs.
LineInit(t) ==
    /\ ~Others(t)
    /\ Enter(t, "Init", NoTime, 0, 0)

\* rtc.SetTime(x), after Init.
LineSetTime(t) ==
    /\ op /= "none"
    /\ \E x \in LineTimes : Enter(t, "SetTime", x, 0, 0)

\* rtc.ReadTime(), after Init.
LineReadTime(t) ==
    /\ op /= "none"
    /\ Enter(t, "ReadTime", NoTime, 0, 0)

\* d.writeRegister(reg, input) on its own, with the seconds register's address or
\* the input byte itself as the address.
LineWriteRegister(t) ==
    /\ op /= "none"
    /\ \E reg \in {DS1302_SECONDS_WRITE, th[t].input} :
           Enter(t, "writeRegister", NoTime, reg, th[t].input)

\* d.readRegister(DS1302_SECONDS_READ) on its own.
LineReadRegister(t) ==
    /\ op /= "none"
    /\ Enter(t, "readRegister", NoTime, DS1302_SECONDS_READ, 0)

\* Goroutine t performs the next pin operation of its call.
LineStep(t) ==
    /\ Busy(t)
    /\ th[t].ip < OpsOf(th[t])
    /\ overlap < MaxOverlap
    /\ LET o == OpAt(th[t])
       IN  /\ Becomes(Perform(Bus, o))
           /\ th' = [th EXCEPT ![t] = Advance(th[t], o, Bus)]
    /\ overlap' = IF overlap = 0 THEN 0 ELSE overlap + 1
    /\ UNCHANGED <<call, pc, op, arg, locals, result, now, codec>>

\* The call of goroutine t returns; ReadTime returns time.Date of its locals.
LineReturn(t) ==
    /\ Busy(t)
    /\ th[t].ip = OpsOf(th[t])
    /\ op' = th[t].call
    /\ result' = IF th[t].call = "ReadTime" THEN ReadTimeResult(th[t].locals) ELSE result
    /\ th' = [th EXCEPT ![t] = IdleThread(th[t].input)]
    /\ UNCHANGED <<level, mode, chip, regs, trace, csHigh, csLow, call, pc, arg, locals, now,
                   codec, overlap>>

\* One goroutine calls Init, SetTime and ReadTime, one call after the other.
LinesInit ==
    /\ Constructed
    /\ ~chip.latch
    /\ th[1].input = 0
    /\ regs \in LineRegs
    /\ now = BaseTime
    /\ codec = CodecOff

LinesNext ==
    \/ LineInit(1)
    \/ LineSetTime(1)
    \/ LineReadTime(1)
    \/ LineStep(1)
    \/ LineReturn(1)

SpecLines == LinesInit /\ [][LinesNext]_vars

\* The register protocol on its own: any byte is written, as the address and
\* as the value, and the seconds register is read holding any byte.
TransportInit ==
    /\ Constructed
    /\ ~chip.latch
    /\ regs \in {[BaseRegs EXCEPT ![DS1302_SECONDS_WRITE] = r] : r \in Byte}
    /\ regs = BaseRegs \/ th[1].input = 0
    /\ now = BaseTime
    /\ codec = CodecOff

TransportNext ==
    \/ LineInit(1)
    \/ LineWriteRegister(1)
    \/ LineReadRegister(1)
    \/ LineStep(1)
    \/ LineReturn(1)

SpecTransport == TransportInit /\ [][TransportNext]_vars

\* Two goroutines call SetTime and ReadTime on the same driver with nothing to
\* keep one call from starting while the other runs: the second goroutine
\* calls while the first is in a call.
ConcInit ==
    /\ Constructed
    /\ ~chip.latch
    /\ th[1].input = 0
    /\ regs = BaseRegs
    /\ now = BaseTime
    /\ codec = CodecOff

ConcNext ==
    \/ LineInit(1)
    \/ \E t \in Threads :
        /\ t = 1 \/ Others(t)
        /\ \/ LineSetTime(t)
           \/ LineReadTime(t)
    \/ \E t \in Threads :
        \/ LineStep(t)
        \/ LineReturn(t)

SpecConc == ConcInit /\ [][ConcNext]_vars

(***************************************************************************)
(* Properties.                                                             *)
(***************************************************************************)
\* A transaction as the chip logs it: command byte, data byte, clock pulses.
Txn(cmd, data) == [cmd |-> cmd, data |-> data, edges |-> 16]

\* The two decimal digits of n as the nibbles of a byte.
Digits(n) == (n \div 10) * 16 + (n % 10)

\* The decimal value of a byte read as two digits, tens in the upper nibble.
Decimal(byte) == (byte \div 16) * 10 + (byte % 16)

SetTimeReturned == call = "idle" /\ op = "SetTime"

ReadTimeReturned == call = "idle" /\ op = "ReadTime"

Cmds(tr) == [k \in 1..Len(tr) |-> tr[k].cmd]

\* C1: the write transactions of one SetTime call are (0x8E, 0x00), then the
\* writes of seconds 0x80, minutes 0x82, hours 0x84, date 0x86, month 0x88 and
\* year 0x8C in that order, then (0x8E, 0x80): while the call runs the chip has
\* seen a prefix of that sequence, and at its return the whole of it.
C1_WriteProtectBracket ==
    LET addrs == <<142, 128, 130, 132, 134, 136, 140, 142>>
    IN  /\ call = "SetTime" =>
               /\ Len(trace) = pc
               /\ Cmds(trace) = SubSeq(addrs, 1, pc)
               /\ \A k \in 1..Len(trace) : trace[k].edges = 16
               /\ pc >= 1 => trace[1] = Txn(142, 0)
        /\ SetTimeReturned =>
               /\ Cmds(trace) = addrs
               /\ trace[1] = Txn(142, 0)
               /\ trace[8] = Txn(142, 128)
               /\ \A k \in 2..7 : trace[k].cmd /= 142 /\ trace[k].edges = 16

\* C1 witness: a SetTime of a time other than the example's has returned.
C1_Witness ==
    SetTimeReturned /\ arg = OtherTime /\ Len(trace) = 8 /\ trace[8] = Txn(142, 128)

\* C2: after SetTime of a valid time with a year in 2000..2099, ReadTime returns
\* a time with the same second, minute, hour, day, month and year, and no step
\* changes the day-of-week register.
C2_RoundTrip ==
    /\ [](ReadTimeReturned /\ arg /= NoTime /\ arg.year \in 2000..2099 => result = arg)
    /\ [][regs'[138] = regs[138]]_vars

\* C2 witness: the example's 2024-08-05 21:00:00 was set and read back.
C2_Witness ==
    /\ ReadTimeReturned
    /\ arg = Time(2024, 8, 5, 21, 0, 0)
    /\ result = Time(2024, 8, 5, 21, 0, 0)
    /\ regs[138] /= 1

\* C3: bcdToDec(decToBcd(n)) = n for every n in 0..99, in uint8 arithmetic.
C3_BcdRoundTrip ==
    codec.pc = "decoded" /\ codec.n <= 99 => codec.dec = codec.n

\* C3 witness: 99 was encoded and decoded.
C3_Witness == codec.pc = "decoded" /\ codec.n = 99 /\ codec.dec = 99

\* C4: for every n in 0..99, decToBcd(n) has the tens digit of n in its upper
\* nibble and the ones digit in its lower nibble, both at most 9, and equals
\* ((n / 10) << 4) | (n % 10); decToBcd(45) = 0x45, decToBcd(0) = 0x00 and
\* decToBcd(99) = 0x99.
C4_BcdEncoding ==
    codec.pc \in {"encoded", "decoded"} /\ codec.n <= 99 =>
        /\ codec.bcd \div 16 = codec.n \div 10
        /\ codec.bcd % 16 = codec.n % 10
        /\ codec.bcd \div 16 <= 9
        /\ codec.bcd % 16 <= 9
        /\ codec.bcd = BitOr(((codec.n \div 10) * 16) % 256, codec.n % 10)
        /\ codec.n = 45 => codec.bcd = 69
        /\ codec.n = 0 => codec.bcd = 0
        /\ codec.n = 99 => codec.bcd = 153

\* C4 witness: 45 was encoded as 0x45.
C4_Witness == codec.pc = "encoded" /\ codec.n = 45 /\ codec.bcd = 69

\* C5: the seconds ReadTime decodes from the raw seconds byte r are the decimal
\* value of r with bit 7 cleared, so bit 7 of r has no influence; the raw byte
\* 0xD9 decodes to 59.
C5_ClockHaltMask ==
    (call = "ReadTime" /\ pc >= 1) \/ ReadTimeReturned =>
        LET r == regs[128]
            low == IF r >= 128 THEN r - 128 ELSE r
        IN  /\ trace[1] = Txn(129, r)
            /\ locals.seconds = Decimal(low)
            /\ r = 217 => locals.seconds = 59
            /\ r = 217 /\ ReadTimeReturned => result.second = 59

\* C5 witness: ReadTime returned with the seconds register holding 0xD9.
C5_Witness ==
    ReadTimeReturned /\ regs[128] = 217 /\ locals.seconds = 59 /\ result.second = 59

\* The decoded locals of ReadTime other than the year are a time of day and a
\* day of the month that exist, so time.Date carries nothing into the year.
LocalsInRange ==
    /\ locals.seconds <= 59
    /\ locals.minutes <= 59
    /\ locals.hours <= 23
    /\ locals.month \in 1..12
    /\ locals.day \in 1..DaysIn(locals.month, locals.year)

C7_YearWrapsMod100 ==
    /\ SetTimeReturned /\ arg.year \notin 2000..2099 =>
           regs[140] = Digits((arg.year - 2000) % 100)
    /\ ReadTimeReturned /\ arg /= NoTime /\ arg.year \notin 2000..2099 =>
           result.year = 2000 + ((arg.year - 2000) % 100)

\* C8 as claimed: each call of SetTime and each call of ReadTime performs
\* exactly 7 chip-select-bracketed register transactions.
C8_SevenTransactions ==
    SetTimeReturned \/ ReadTimeReturned =>
        Len(trace) = 7 /\ csHigh = 7 /\ csLow = 7

\* C8 amended: a call of SetTime performs exactly 8 register transactions and a
\* call of ReadTime exactly 6, and chip-select is raised once and lowered once
\* per transaction.
C8_TransactionCount ==
    /\ SetTimeReturned => Len(trace) = 8
    /\ ReadTimeReturned => Len(trace) = 6
    /\ call \in {"SetTime", "ReadTime"} => Len(trace) = pc
    /\ op /= "none" => csHigh = Len(trace) /\ csLow = Len(trace)
    /\ level["rst"] = 0

\* C8 witness: a SetTime returned after an earlier ReadTime had returned.
C8_Witness ==
    SetTimeReturned /\ result /= NoTime /\ Len(trace) = 8 /\ csHigh = 8 /\ csLow = 8

\* C9: the read transactions of one ReadTime call have the command bytes 0x81,
\* 0x83, 0x85, 0x87, 0x89, 0x8D in that order, a prefix of them while the call
\* runs, and no call ever sends the day-of-week addresses 0x8A or 0x8B.
C9_ReadOrder ==
    LET addrs == <<129, 131, 133, 135, 137, 141>>
    IN  /\ call = "ReadTime" => Cmds(trace) = SubSeq(addrs, 1, pc)
        /\ ReadTimeReturned => Cmds(trace) = addrs
        /\ \A k \in 1..Len(trace) : trace[k].cmd \notin {138, 139}

\* C9 witness: a ReadTime has returned after its sixth read, of the year.
C9_Witness == ReadTimeReturned /\ Len(trace) = 6 /\ trace[6].cmd = 141

\* C10 as claimed: whatever the six registers hold, the fields of the time
\* ReadTime returns are the decimal values of the register bytes (the seconds
\* without bit 7, the year plus 2000), with no carry between fields.
C10_Verbatim ==
    ReadTimeReturned =>
        /\ result.second = Decimal(regs[128] % 128)
        /\ result.minute = Decimal(regs[130])
        /\ result.hour = Decimal(regs[132])
        /\ result.day = Decimal(regs[134])
        /\ result.month = Decimal(regs[136])
        /\ result.year = 2000 + Decimal(regs[140])

\* C11: after Init, whether it is the first call, a repeated one or one that
\* follows any completed SetTime and ReadTime calls, clock, data and chip-select
\* are configured as outputs and driven low, and the chip has seen no transaction.
C11_InitIdle ==
    call = "idle" /\ op = "Init" =>
        /\ mode = [p \in {"clk", "dat", "rst"} |-> "output"]
        /\ level = [p \in {"clk", "dat", "rst"} |-> 0]
        /\ trace = <<>>
        /\ csHigh = 0
        /\ csLow = 0

\* C11 witness: Init has returned after a SetTime and a ReadTime had returned.
C11_Witness ==
    /\ call = "idle"
    /\ op = "Init"
    /\ arg /= NoTime
    /\ result /= NoTime
    /\ mode["dat"] = "output"
    /\ level["dat"] = 0

\* C12: on the stub every call is possible in every state, no call changes the
\* lines or the chip, and every ReadTime returns the zero time.Time whatever
\* SetTime was given before.
C12_StubNoOp ==
    /\ [](/\ result \in {NoTime, Time(1, 1, 1, 0, 0, 0)}
          /\ op = "ReadTime" => result = Time(1, 1, 1, 0, 0, 0)
          /\ ENABLED StubInit
          /\ ENABLED StubSetTime
          /\ ENABLED StubReadTime)
    /\ [][UNCHANGED <<level, mode, chip, regs, trace, csHigh, csLow>>]_vars

\* C12 witness: the stub's ReadTime returned the zero time after a SetTime of
\* another time.
C12_Witness ==
    op = "ReadTime" /\ arg = OtherTime /\ result = Time(1, 1, 1, 0, 0, 0)

\* C17: against a chip with a write-protect latch, whatever the latch held
\* before, a completed SetTime leaves the six field registers holding the bytes
\* of its argument and the latch at 0x80; once a SetTime has completed the chip
\* is write-protected whenever no call is in progress.
C17_LatchEffective ==
    /\ SetTimeReturned =>
            /\ regs[128] = Digits(arg.second)
            /\ regs[130] = Digits(arg.minute)
            /\ regs[132] = Digits(arg.hour)
            /\ regs[134] = Digits(arg.day)
            /\ regs[136] = Digits(arg.month)
            /\ regs[140] = Digits(arg.year - 2000)
            /\ regs[142] = 128
    /\ call = "idle" /\ arg /= NoTime => regs[142] = 128

\* C17 witness: on a chip with the latch a SetTime of another time has returned
\* after a ReadTime that returned the base time.
C17_Witness ==
    /\ chip.latch
    /\ SetTimeReturned
    /\ arg = OtherTime
    /\ result = BaseTime
    /\ regs[140] = 49
    /\ regs[142] = 128

\* C20: every command byte ReadTime sends is odd, no step of ReadTime changes a
\* chip register or the write-protect register, the value ReadTime returns is
\* the one the current register contents decode to, whatever was called
\* before, and a ReadTime that follows a ReadTime reads the same value again.
C20_ReadOnly ==
    /\ [](/\ call = "ReadTime" => \A k \in 1..Len(trace) : trace[k].cmd % 2 = 1
          /\ ReadTimeReturned =>
                result = Date(2000 + Decimal(regs[140]), Decimal(regs[136]),
                              Decimal(regs[134]), Decimal(regs[132]),
                              Decimal(regs[130]), Decimal(regs[128] % 128))
          /\ call = "ReadTime" /\ op = "ReadTime" /\ pc = 6 =>
                ReadTimeResult(locals) = result)
    /\ [][call = "ReadTime" \/ call' = "ReadTime" => regs' = regs]_vars

\* C20 witness: after a SetTime and a ReadTime a second ReadTime has read all
\* six registers and is about to return what the first returned.
C20_Witness ==
    /\ call = "ReadTime"
    /\ op = "ReadTime"
    /\ pc = 6
    /\ Len(trace) = 6
    /\ arg = OtherTime
    /\ result = OtherTime
    /\ ReadTimeResult(locals) = result

\* Rising clock edges a register transaction has produced before its pin
\* operation j: one per bit, eight for the address and eight for the data.
EdgesBefore(j, write) ==
    LET n == IF j <= 26 THEN (j - 1) \div 3
             ELSE IF write THEN 8 + (j - 26) \div 3
             ELSE 8 + (j - 25) \div 3
    IN  IF n > 16 THEN 16 ELSE n

\* The address of transaction k of a call.
AddressOf(c, k) ==
    IF c = "SetTime" THEN <<142, 128, 130, 132, 134, 136, 140, 142>>[k + 1]
    ELSE <<129, 131, 133, 135, 137, 141>>[k + 1]

\* C13: every register transaction of SetTime and ReadTime raises chip-select,
\* clocks the 8 address bits out, then 8 data bits out (write) or in (read), and
\* lowers chip-select: the chip counts exactly 16 rising edges per chip-select
\* pulse, the first 8 of them give it the address, and the clock never changes
\* while chip-select is low.
C13_Framing ==
    /\ [](LET w == th[1]
              j == w.ip % 52
              k == w.ip \div 52
              inTxn == w.call \in {"SetTime", "ReadTime"} /\ w.ip < OpsOf(w) /\ j > 0
          IN  /\ \A n \in 1..Len(trace) : trace[n].edges = 16
              /\ chip.cnt <= 16
              /\ w.call \in {"SetTime", "ReadTime"} => csLow = k /\ Len(trace) = k
              /\ inTxn =>
                    /\ level["rst"] = 1
                    /\ csHigh = csLow + 1
                    /\ chip.cnt = EdgesBefore(j, w.call = "SetTime")
                    /\ j >= 26 => chip.cmd = AddressOf(w.call, k)
                    /\ j \in 2..26 => mode["dat"] = "output"
                    /\ j >= 27 => mode["dat"] = IF w.call = "SetTime" THEN "output"
                                               ELSE "input"
              /\ ~inTxn => level["rst"] = 0 /\ csHigh = csLow)
    /\ [][level'["clk"] /= level["clk"] => level["rst"] = 1 /\ level'["rst"] = 1]_vars

\* C13 witness: the last readRegister of a ReadTime that follows a SetTime has
\* clocked 16 edges and is about to lower chip-select.
C13_Witness ==
    /\ op = "SetTime"
    /\ th[1].call = "ReadTime"
    /\ th[1].ip = 311
    /\ chip.cnt = 16
    /\ chip.cmd = 141
    /\ level["rst"] = 1
    /\ Len(trace) = 5

\* The position inside writeByte or readByte of a goroutine at pin operation j
\* of a register transaction, 0 when it is in neither.
ByteOffset(j) == IF j \in 1..25 THEN j - 1 ELSE IF j \in 26..50 THEN j - 26 ELSE 0

\* The n low bits of byte v.
LowBits(v, n) == IF n >= 8 THEN v ELSE v % Pow2(n)

\* C14: for every byte v, writeByte(v) pulses the clock exactly 8 times; before
\* the i-th rising edge the data line, an output, already holds bit i of v, it
\* still holds it while the clock is high, and the chip, which samples on the
\* rising edges, has the low bits of v after each edge and v after the eighth.
C14_WriteByteLsbFirst ==
    LET w == th[1]
        j == w.ip
        v == IF j <= 25 THEN w.reg ELSE w.value
        jj == ByteOffset(j)
        i == (jj - 1) \div 3
        ph == (jj - 1) % 3
        got == IF j <= 25 THEN chip.cmd ELSE chip.din
        n == IF j <= 25 THEN chip.cnt ELSE chip.cnt - 8
    IN  w.call = "writeRegister" /\ j \in 1..51 =>
            /\ j \in {1, 26} => n = 0
            /\ j = 26 => chip.cnt = 8 /\ chip.cmd = w.reg
            /\ j = 51 => chip.cnt = 16 /\ (w.reg % 2 = 0 => chip.din = w.value)
            /\ jj >= 1 =>
                /\ mode["dat"] = "output"
                /\ n = IF ph = 2 THEN i + 1 ELSE i
                /\ ph = 1 => level["clk"] = 0 /\ level["dat"] = (v \div Pow2(i)) % 2
                /\ ph = 2 => level["clk"] = 1 /\ level["dat"] = (v \div Pow2(i)) % 2
                /\ j <= 25 \/ w.reg % 2 = 0 => got = LowBits(v, n)

\* C14 witness: writeRegister has shifted out 0xA5, which is no BCD byte, as its
\* value, and the chip has stored 0xA5 in the seconds register.
C14_Witness ==
    /\ th[1].call = "writeRegister"
    /\ th[1].ip = 51
    /\ th[1].reg = 128
    /\ th[1].value = 165
    /\ chip.din = 165
    /\ regs[128] = 165

\* C15: for every byte r the chip presents, readByte pulses the clock exactly 8
\* times, samples the data line, an input, once per pulse while the clock is
\* high, the i-th sample being bit i of r, and has the low bits of r after each
\* sample and r when it returns.
C15_ReadByteLsbFirst ==
    LET w == th[1]
        j == w.ip
        r == regs[128]
        jj == j - 26
        i == (jj - 1) \div 3
        ph == (jj - 1) % 3
    IN  w.call = "readRegister" =>
            /\ j = 26 => chip.cnt = 8
            /\ j \in 27..51 =>
                /\ mode["dat"] = "input"
                /\ chip.cnt = 8 + (IF ph = 0 THEN i ELSE i + 1)
                /\ w.data = LowBits(r, IF ph = 2 THEN i + 1 ELSE i)
                /\ level["clk"] = IF ph = 0 THEN 0 ELSE 1
                /\ ph = 1 => chip.io = (r \div Pow2(i)) % 2
            /\ j >= 51 => chip.cnt = 16 /\ w.data = r
            /\ j = 52 => level["clk"] = 0

\* C15 witness: readRegister is about to return 0xD9, which the seconds
\* register holds.
C15_Witness ==
    /\ th[1].call = "readRegister"
    /\ th[1].ip = 52
    /\ regs[128] = 217
    /\ th[1].data = 217

\* C16: in every state of any sequence of Init, SetTime and ReadTime calls, the
\* next High or Low on the data line finds it configured as an output and the
\* next Get finds it configured as an input; inside writeByte the line is an
\* output and inside readByte an input from the first bit on, whatever
\* direction the previous call left; the data latch and readByte's byte change
\* only under the matching direction.
C16_Direction ==
    /\ [](LET w == th[1]
              j == w.ip % 52
              o == OpAt(w)
          IN  /\ Busy(1) /\ w.ip < OpsOf(w) =>
                    /\ o.pin = "dat" /\ o.k \in {"high", "low"} => mode["dat"] = "output"
                    /\ o.k = "get" => mode["dat"] = "input"
              /\ w.call \in {"SetTime", "ReadTime"} /\ w.ip < OpsOf(w) =>
                    /\ j \in 2..26 => mode["dat"] = "output"
                    /\ j \in 27..51 => mode["dat"] = IF w.call = "SetTime" THEN "output"
                                                    ELSE "input")
    /\ [][/\ level'["dat"] /= level["dat"] => mode["dat"] = "output"
          /\ th'[1].data /= th[1].data /\ th'[1].data /= 0 => mode["dat"] = "input"]_vars

\* C16 witness: a SetTime that follows a ReadTime, which left the data line an
\* input, has configured it as an output and is about to drive its first bit.
C16_Witness ==
    /\ op = "ReadTime"
    /\ th[1].call = "SetTime"
    /\ th[1].ip = 2
    /\ mode["dat"] = "output"
    /\ level["rst"] = 1

\* C19: once Init has been called, in any sequence of calls made one after the
\* other, clock and chip-select are low whenever no call is in progress and at
\* the return of every writeRegister, readRegister, SetTime and ReadTime; the
\* clock is low at the entry and at the return of every writeByte and readByte;
\* chip-select changes only while the clock is low.
C19_IdleLines ==
    /\ [](LET w == th[1]
              j == w.ip % 52
          IN  /\ ~Busy(1) /\ op /= "none" => level["clk"] = 0 /\ level["rst"] = 0
              /\ w.call \in {"SetTime", "ReadTime"} /\ j = 0 =>
                    level["clk"] = 0 /\ level["rst"] = 0
              /\ w.call \in {"SetTime", "ReadTime"} /\ j \in {1, 26, 51} =>
                    level["clk"] = 0 /\ level["rst"] = 1
              /\ w.call = "Init" /\ op /= "none" => level["clk"] = 0 /\ level["rst"] = 0)
    /\ [][level'["rst"] /= level["rst"] => level["clk"] = 0 /\ level'["clk"] = 0]_vars

\* C19 witness: a ReadTime that follows a SetTime has finished its last
\* readRegister and is about to return, with clock and chip-select low.
C19_Witness ==
    /\ op = "SetTime"
    /\ th[1].call = "ReadTime"
    /\ th[1].ip = 312
    /\ csLow = 6
    /\ level["clk"] = 0
    /\ level["rst"] = 0

\* The write transactions some SetTime call of the application sends.
SentWrites ==
    {<<142, 0>>, <<142, 128>>}
    \cup UNION {{<<128, Digits(x.second)>>, <<130, Digits(x.minute)>>,
                 <<132, Digits(x.hour)>>, <<134, Digits(x.day)>>,
                 <<136, Digits(x.month)>>, <<140, Digits(x.year - 2000)>>} :
                x \in {BaseTime, OtherTime}}

\* The read addresses ReadTime sends.
SentReads == {129, 131, 133, 135, 137, 141}

\* The chip has received, within one chip-select pulse, an address or a data
\* byte that no call sent, or more or fewer than 16 clock pulses.
Corrupted ==
    \/ \E n \in 1..Len(trace) :
          \/ trace[n].edges /= 16
          \/ trace[n].cmd % 2 = 1 /\ trace[n].cmd \notin SentReads
          \/ trace[n].cmd % 2 = 0 /\ <<trace[n].cmd, trace[n].data>> \notin SentWrites
    \/ chip.cnt > 16
    \/ chip.cnt >= 8 /\ chip.cmd \notin SentReads \cup {wr[1] : wr \in SentWrites}
    \/ chip.cnt = 16 /\ chip.cmd % 2 = 0 /\ <<chip.cmd, chip.din>> \notin SentWrites

\* C18: as long as no call has started while another was in progress, the chip
\* has received only whole 16-pulse transactions with addresses and data that
\* the calls sent; nothing in the driver keeps a call from starting while
\* another is in progress, and then the chip can receive a byte no call sent.
C18_SerializedIntact == overlap = 0 => ~Corrupted

\* C18 witness: with a SetTime or ReadTime started while another call was in
\* progress, the chip has stored in a register a byte that no call sent.
C18_Witness ==
    /\ overlap > 0
    /\ Busy(1)
    /\ Busy(2)
    /\ Corrupted
    /\ chip.cnt = 16
    /\ chip.cmd \in DOMAIN regs
    /\ <<chip.cmd, chip.din>> \notin SentWrites
    /\ regs[chip.cmd] = chip.din

====
